---- MODULE Spec2Model ----
(***************************************************************************)
(* The Tetris game engine of src/script.js (and its responsive variant,    *)
(* src/unnamed/part_000) as a state machine.  One action per event the     *)
(* browser can deliver: the 500 ms interval tick (newGameState), a key     *)
(* press, a mobile button, a swipe, the restart button, the delayed        *)
(* game-over prompt and the debounced canvas switch.  Every handler runs   *)
(* to completion, so each is one atomic step.                              *)
(*                                                                         *)
(* JavaScript arrays are modelled as sequences; At(a, i) is a[i] with the  *)
(* source's 0-based index.                                                 *)
(***************************************************************************)
EXTENDS Integers, Sequences, FiniteSets, TLC

ROWS == 20
COLS == 10

\* Number of events (ticks, inputs, clicks, timeouts) delivered in one run.
MaxEvents == 7
\* Number of rotate calls made in a row on one piece.
MaxTurns == 4
\* Number of moveDown calls made in a row on one dropped piece.
MaxSteps == 20
\* How far outside the board the candidate positions of a lone collision call go.
MaxMargin == 2
\* Number of bottom rows that vary in the boards handed to a lone checkGrid pass.
MaxBand == 5

At(a, i) == a[i + 1]

SHAPES ==
  << << <<0, 1, 0, 0>>,
        <<0, 1, 0, 0>>,
        <<0, 1, 0, 0>>,
        <<0, 1, 0, 0>> >>,
     << <<0, 1, 0>>,
        <<0, 1, 0>>,
        <<1, 1, 0>> >>,
     << <<0, 1, 0>>,
        <<0, 1, 0>>,
        <<0, 1, 1>> >>,
     << <<1, 1, 0>>,
        <<0, 1, 1>>,
        <<0, 0, 0>> >>,
     << <<0, 1, 1>>,
        <<1, 1, 0>>,
        <<0, 0, 0>> >>,
     << <<1, 1, 1>>,
        <<0, 1, 0>>,
        <<0, 0, 0>> >>,
     << <<1, 1>>,
        <<1, 1>> >> >>

VARIABLES
  grid,             \* the board: ROWS rows of COLS fill-codes
  fallingPieceObj,  \* <<>> for null, or <<[piece, colorIndex, x, y]>>
  score,
  isGameRunning,
  timers,           \* number of live setInterval(newGameState, 500) timers
  handleLive,       \* gameInterval holds the id of a live timer
  prompts,          \* number of pending game-over setTimeout callbacks
  lastEvent,        \* the operation the last event asked for (bookkeeping)
  threw,            \* the last handler ended in an uncaught TypeError
  count,            \* checkGrid's local count at the end of the last pass
  events,           \* number of events delivered so far
  probe,            \* the arguments and result of a lone call of a function
  shapes            \* the SHAPES array: the seven template matrices as they are now

game == <<grid, fallingPieceObj, score, isGameRunning, timers, handleLive, prompts,
          shapes>>
vars == <<grid, fallingPieceObj, score, isGameRunning, timers, handleLive, prompts,
          lastEvent, threw, count, events, probe, shapes>>

Null == <<>>
Obj == fallingPieceObj[1]

\* ------------------------------------------------------------------ grid

EmptyRow == [j \in 1..COLS |-> 0]

generateGrid == [i \in 1..ROWS |-> EmptyRow]

\* An engine state is a record
\*   [grid, obj, score, running, timers, handleLive, prompts, threw, count, shapes];
\* each operation below maps the engine state it finds to the one it leaves.

\* ------------------------------------------------------------- collision

\* A cell test whose floor is one row too high.
CellCollidesShortFloor(g, piece, x, y, i, j) ==
  LET p == x + j
      q == y + i
  IN IF p >= 0 /\ p < COLS /\ q >= 0 /\ q < ROWS - 1
       THEN At(At(g, q), p) > 0
       ELSE TRUE

\* The filled-cell test of collision's inner body for matrix cell (i, j).
CellCollides(g, piece, x, y, i, j) ==
  LET p == x + j
      q == y + i
  IN IF p >= 0 /\ p < COLS /\ q >= 0 /\ q < ROWS
       THEN At(At(g, q), p) > 0
       ELSE TRUE

\* A scan that tests every cell of the matrix, filled or not.
RECURSIVE CollisionScanBox(_, _, _, _, _)
CollisionScanBox(g, piece, x, y, k) ==
  LET n == Len(piece)
      i == k \div n
      j == k % n
  IN IF k >= n * n THEN FALSE
     ELSE IF CellCollides(g, piece, x, y, i, j) THEN TRUE
     ELSE CollisionScanBox(g, piece, x, y, k + 1)

\* collision's nested loops, scanned in the source's order with its early returns;
\* k enumerates (i, j) row-major.
RECURSIVE CollisionScan(_, _, _, _, _)
CollisionScan(g, piece, x, y, k) ==
  LET n == Len(piece)
      i == k \div n
      j == k % n
  IN IF k >= n * n THEN FALSE
     ELSE IF At(At(piece, i), j) = 1 /\ CellCollides(g, piece, x, y, i, j) THEN TRUE
     ELSE CollisionScan(g, piece, x, y, k + 1)

\* An argument the caller leaves out.
Undefined == <<>>

\* collision(x, y, rotatedPiece) on the grid and falling piece of engine state s.
collision(s, x, y, rotatedPiece) ==
  LET piece == IF rotatedPiece # Undefined THEN rotatedPiece ELSE s.obj[1].piece
  IN CollisionScan(s.grid, piece, x, y, 0)

\* ---------------------------------------------------------------- rotate

\* A transposition written into the matrix it reads: the cells above the diagonal
\* take the cells below it, which are then copied back onto themselves.
TransposeAliased(piece) ==
  [i \in 1..Len(piece) |-> [j \in 1..Len(piece[i]) |->
     IF j > i THEN piece[j][i] ELSE piece[i][j]]]

\* rotatedPiece[i][j] = piece[j][i], then every row reversed.
Transpose(piece) ==
  [i \in 1..Len(piece) |-> [j \in 1..Len(piece[i]) |-> piece[j][i]]]

Reverse(row) == [j \in 1..Len(row) |-> row[Len(row) + 1 - j]]

RotatedPiece(piece) ==
  LET t == Transpose(piece) IN [i \in 1..Len(t) |-> Reverse(t[i])]

\* ------------------------------------------------------------- checkGrid

\* An empty slot of an array, left where a write past the end skipped an index, or
\* read past the end: it reads undefined, which is neither == 0 nor > 0.
EmptySlot == -1

\* row[j] read from a JavaScript array.
Slot(row, j) == IF j >= 0 /\ j < Len(row) THEN At(row, j) ELSE EmptySlot

\* row[p] = v written to a JavaScript array: an index at or past the length grows
\* the array up to it, and the indices skipped stay empty.
SetSlot(row, p, v) ==
  IF p < Len(row)
    THEN [row EXCEPT ![p + 1] = v]
    ELSE row \o [k \in 1..(p - Len(row)) |-> EmptySlot] \o <<v>>

\* The inner loop of checkGrid for row i: j runs up to grid[0].length.
allFilled(g, i) == \A j \in 0..(Len(At(g, 0)) - 1) : Slot(At(g, i), j) # 0

\* grid.splice(i): without the delete count, the row and every row after it go.
SpliceRest(g, i) == SubSeq(g, 1, i)

\* grid.splice(i, 1)
Splice(g, i) == SubSeq(g, 1, i) \o SubSeq(g, i + 2, Len(g))

\* grid.push([0, ..., 0]): the empty row goes to the bottom.
UnshiftAsPush(g) == g \o <<EmptyRow>>

\* grid.unshift([0, ..., 0])
Unshift(g) == <<EmptyRow>> \o g

\* A scan that removes a complete row and only appends the empty rows once the scan
\* is over: the rows below move up under the index, which then skips one.
RECURSIVE CheckGridLoopDrift(_, _, _)
CheckGridLoopDrift(g, i, c) ==
  IF i >= Len(g) THEN [grid |-> [k \in 1..c |-> EmptyRow] \o g, count |-> c]
  ELSE IF allFilled(g, i)
         THEN CheckGridLoopDrift(Splice(g, i), i + 1, c + 1)
         ELSE CheckGridLoopDrift(g, i + 1, c)

\* The scan of checkGrid: i runs over the grid as it is being mutated.
RECURSIVE CheckGridLoop(_, _, _)
CheckGridLoop(g, i, c) ==
  IF i >= Len(g) THEN [grid |-> g, count |-> c]
  ELSE IF allFilled(g, i)
         THEN CheckGridLoop(Unshift(Splice(g, i)), i + 1, c + 1)
         ELSE CheckGridLoop(g, i + 1, c)

\* A scoring whose branches are not alternatives: every branch the count reaches
\* adds its amount.
AddScoreNoElse(s, c) ==
  s + (IF c >= 1 THEN 10 ELSE 0) + (IF c >= 2 THEN 30 ELSE 0)
    + (IF c >= 3 THEN 50 ELSE 0) + (IF c > 3 THEN 100 ELSE 0)

\* A scoring whose first branch subtracts.
AddScoreMinus(s, c) ==
  IF c = 1 THEN s - 10
  ELSE IF c = 2 THEN s + 30
  ELSE IF c = 3 THEN s + 50
  ELSE IF c > 3 THEN s + 100
  ELSE s

\* A scoring that adds 10 per cleared row.
AddScorePerRow(s, c) == s + 10 * c

AddScore(s, c) ==
  IF c = 1 THEN s + 10
  ELSE IF c = 2 THEN s + 30
  ELSE IF c = 3 THEN s + 50
  ELSE IF c > 3 THEN s + 100
  ELSE s

\* checkGrid as a function of (grid, score): the new grid, score and the pass count.
checkGrid(g, s) ==
  LET r == CheckGridLoop(g, 0, 0)
  IN [grid |-> r.grid, score |-> AddScore(s, r.count), count |-> r.count]


\* clearInterval(gameInterval): cancels the timer whose id gameInterval holds, if it
\* is still live; harmless otherwise.
clearInterval(s) ==
  IF s.handleLive
    THEN [s EXCEPT !.timers = s.timers - 1, !.handleLive = FALSE]
    ELSE s

startGame(s) ==
  IF ~s.running
    THEN [s EXCEPT !.running = TRUE, !.timers = s.timers + 1, !.handleLive = TRUE]
    ELSE s

\* A restartGame that leaves the running flag as it finds it.
restartGameKeepsFlag(s) ==
  LET c == clearInterval(s)
  IN startGame([c EXCEPT !.grid = generateGrid, !.obj = Null, !.score = 0])

\* A restartGame that does not cancel the interval before it starts the next one.
restartGameNoClear(s) ==
  startGame([s EXCEPT !.grid = generateGrid, !.obj = Null, !.score = 0,
                      !.running = FALSE])

restartGame(s) ==
  LET c == clearInterval(s)
  IN startGame([c EXCEPT !.grid = generateGrid, !.obj = Null, !.score = 0,
                         !.running = FALSE])

\* A merge loop that marks the cells of the piece with 1 instead of its fill-code.
RECURSIVE MergeScanOnes(_, _, _)
MergeScanOnes(g, o, k) ==
  LET n == Len(o.piece)
      i == k \div n
      j == k % n
      p == o.x + j
      q == o.y + i
  IN IF k >= n * n THEN [grid |-> g, threw |-> FALSE]
     ELSE IF At(At(o.piece, i), j) # 1 THEN MergeScanOnes(g, o, k + 1)
     ELSE IF q < 0 \/ q >= ROWS THEN [grid |-> g, threw |-> TRUE]
     ELSE IF p < 0 THEN MergeScanOnes(g, o, k + 1)
     ELSE MergeScanOnes([g EXCEPT ![q + 1] = SetSlot(@, p, 1)], o, k + 1)

\* The merge loop of moveDown, in the source's order.  A filled cell whose row is
\* outside the grid makes grid[q] undefined and the write throws; a negative column
\* sets a property of the row that is no cell of it; a column at or past the end of
\* the row grows the row.
RECURSIVE MergeScan(_, _, _)
MergeScan(g, o, k) ==
  LET n == Len(o.piece)
      i == k \div n
      j == k % n
      p == o.x + j
      q == o.y + i
  IN IF k >= n * n THEN [grid |-> g, threw |-> FALSE]
     ELSE IF At(At(o.piece, i), j) # 1 THEN MergeScan(g, o, k + 1)
     ELSE IF q < 0 \/ q >= ROWS THEN [grid |-> g, threw |-> TRUE]
     ELSE IF p < 0 THEN MergeScan(g, o, k + 1)
     ELSE MergeScan([g EXCEPT ![q + 1] = SetSlot(@, p, o.colorIndex)], o, k + 1)

\* A game-over branch that clears the running flag and leaves the interval running.
GameOverNoClear(s) == [s EXCEPT !.running = FALSE, !.prompts = s.prompts + 1]

\* The game-over branch of moveDown.
GameOver(s) ==
  LET c == clearInterval(s)
  IN [c EXCEPT !.running = FALSE, !.prompts = c.prompts + 1]

\* A moveDown without the game-over branch.
moveDownNoGameOver(s) ==
  IF s.obj = Null
    THEN [s EXCEPT !.threw = TRUE]
  ELSE LET o == s.obj[1] IN
    IF ~collision(s, o.x, o.y + 1, Undefined)
      THEN [s EXCEPT !.obj = <<[o EXCEPT !.y = o.y + 1]>>]
    ELSE LET m == MergeScan(s.grid, o, 0) IN
      IF m.threw
        THEN [s EXCEPT !.grid = m.grid, !.threw = TRUE]
      ELSE [s EXCEPT !.grid = m.grid, !.obj = Null]

moveDown(s) ==
  IF s.obj = Null
    THEN [s EXCEPT !.threw = TRUE]      \* fallingPieceObj.x of null
  ELSE LET o == s.obj[1] IN
    IF ~collision(s, o.x, o.y + 1, Undefined)
      THEN [s EXCEPT !.obj = <<[o EXCEPT !.y = o.y + 1]>>]
    ELSE LET m == MergeScan(s.grid, o, 0) IN
      IF m.threw
        THEN [s EXCEPT !.grid = m.grid, !.threw = TRUE]
      ELSE LET l == [s EXCEPT !.grid = m.grid]
               e == IF o.y = 0 THEN GameOver(l) ELSE l
           IN [e EXCEPT !.obj = Null]

\* A moveLeft that tests the piece where it is instead of where it would go.
moveLeftNoLookahead(s) ==
  IF s.obj # Null /\ ~collision(s, s.obj[1].x, s.obj[1].y, Undefined)
    THEN [s EXCEPT !.obj = <<[s.obj[1] EXCEPT !.x = s.obj[1].x - 1]>>]
    ELSE s

moveLeft(s) ==
  IF s.obj # Null /\ ~collision(s, s.obj[1].x - 1, s.obj[1].y, Undefined)
    THEN [s EXCEPT !.obj = <<[s.obj[1] EXCEPT !.x = s.obj[1].x - 1]>>]
    ELSE s

\* A moveRight that does not ask collision.
moveRightUnchecked(s) ==
  IF s.obj # Null
    THEN [s EXCEPT !.obj = <<[s.obj[1] EXCEPT !.x = s.obj[1].x + 1]>>]
    ELSE s

moveRight(s) ==
  IF s.obj # Null /\ ~collision(s, s.obj[1].x + 1, s.obj[1].y, Undefined)
    THEN [s EXCEPT !.obj = <<[s.obj[1] EXCEPT !.x = s.obj[1].x + 1]>>]
    ELSE s

\* A rotate that, when the rotated shape collides, retries one row up.
rotateFloorKick(s) ==
  IF s.obj = Null THEN s
  ELSE LET o == s.obj[1]
           rotatedPiece == RotatedPiece(o.piece)
       IN IF ~collision(s, o.x, o.y, rotatedPiece)
            THEN [s EXCEPT !.obj = <<[o EXCEPT !.piece = rotatedPiece]>>]
          ELSE IF ~collision(s, o.x, o.y - 1, rotatedPiece)
            THEN [s EXCEPT !.obj = <<[o EXCEPT !.piece = rotatedPiece, !.y = o.y - 1]>>]
          ELSE s

\* A rotate that turns the matrix of the piece where it is.  That matrix is the one
\* randomPieceObject took from SHAPES, so the template turns with the piece.
rotateInPlace(s) ==
  IF s.obj = Null THEN s
  ELSE LET o == s.obj[1]
           rotatedPiece == RotatedPiece(o.piece)
       IN IF ~collision(s, o.x, o.y, rotatedPiece)
            THEN [s EXCEPT !.obj = <<[o EXCEPT !.piece = rotatedPiece]>>,
                           !.shapes[o.colorIndex] = rotatedPiece]
            ELSE s

\* A rotate that, when the rotated shape collides, retries one column to the right.
rotateWithKick(s) ==
  IF s.obj = Null THEN s
  ELSE LET o == s.obj[1]
           rotatedPiece == RotatedPiece(o.piece)
       IN IF ~collision(s, o.x, o.y, rotatedPiece)
            THEN [s EXCEPT !.obj = <<[o EXCEPT !.piece = rotatedPiece]>>]
          ELSE IF ~collision(s, o.x + 1, o.y, rotatedPiece)
            THEN [s EXCEPT !.obj = <<[o EXCEPT !.piece = rotatedPiece, !.x = o.x + 1]>>]
          ELSE s

rotate(s) ==
  IF s.obj = Null THEN s
  ELSE LET o == s.obj[1]
           rotatedPiece == RotatedPiece(o.piece)
       IN IF ~collision(s, o.x, o.y, rotatedPiece)
            THEN [s EXCEPT !.obj = <<[o EXCEPT !.piece = rotatedPiece]>>]
            ELSE s

\* A randomPieceObject that centres the piece by the width of its matrix.
randomPieceObjectCentred(s, ran) ==
  [piece |-> At(s.shapes, ran), colorIndex |-> ran + 1,
   x |-> (COLS - Len(At(s.shapes, ran))) \div 2, y |-> 0]

\* randomPieceObject with Math.floor(Math.random() * 7) = ran; the piece is the
\* template matrix SHAPES[ran] as the array holds it at the time of the call.
randomPieceObject(s, ran) ==
  [piece |-> At(s.shapes, ran), colorIndex |-> ran + 1, x |-> 4, y |-> 0]

\* A newGameState that, in the tick that spawns a piece, leaves it where it spawned.
newGameStateSpawnOnly(s, ran) ==
  LET c == checkGrid(s.grid, s.score)
      a == [s EXCEPT !.grid = c.grid, !.score = c.score, !.count = c.count]
  IN IF a.obj = Null
       THEN [a EXCEPT !.obj = <<randomPieceObject(a, ran)>>]
       ELSE moveDown(a)

\* A newGameState that spawns and steps the piece first and clears the lines last.
newGameStateClearLast(s, ran) ==
  LET b == IF s.obj = Null THEN [s EXCEPT !.obj = <<randomPieceObject(s, ran)>>] ELSE s
      m == moveDown(b)
      c == checkGrid(m.grid, m.score)
  IN [m EXCEPT !.grid = c.grid, !.score = c.score, !.count = c.count]

\* newGameState with Math.floor(Math.random() * 7) = ran.
newGameState(s, ran) ==
  LET c == checkGrid(s.grid, s.score)
      a == [s EXCEPT !.grid = c.grid, !.score = c.score, !.count = c.count]
      b == IF a.obj = Null THEN [a EXCEPT !.obj = <<randomPieceObject(a, ran)>>] ELSE a
  IN moveDown(b)

\* switchCanvas; changed is newCanvas !== canvas, which the window width decides.
switchCanvas(s, changed) ==
  IF changed
    THEN restartGame([clearInterval(s) EXCEPT !.running = FALSE])
    ELSE s

\* A keydown listener without the isGameRunning guard.
keydownUnguarded(s, key) ==
  IF key = "ArrowDown" THEN moveDown(s)
  ELSE IF key = "ArrowLeft" THEN moveLeft(s)
  ELSE IF key = "ArrowRight" THEN moveRight(s)
  ELSE IF key = "ArrowUp" THEN rotate(s)
  ELSE s

\* The keydown listener.
keydown(s, key) ==
  IF ~s.running THEN s
  ELSE IF key = "ArrowDown" THEN moveDown(s)
  ELSE IF key = "ArrowLeft" THEN moveLeft(s)
  ELSE IF key = "ArrowRight" THEN moveRight(s)
  ELSE IF key = "ArrowUp" THEN rotate(s)
  ELSE s

\* The click and touchstart listeners of the mobile buttons.
mobileLeft(s) == IF s.running THEN moveLeft(s) ELSE s

mobileRight(s) == IF s.running THEN moveRight(s) ELSE s

\* handleSwipe, with the gesture already classified by its deltas.
handleSwipe(s, gesture) ==
  IF gesture = "right" THEN moveRight(s)
  ELSE IF gesture = "left" THEN moveLeft(s)
  ELSE IF gesture = "down" THEN moveDown(s)
  ELSE IF gesture = "up" THEN rotate(s)
  ELSE s

\* The touchend listener of the canvas.
touchend(s, mobile, gesture) ==
  IF ~s.running \/ ~mobile THEN s ELSE handleSwipe(s, gesture)

\* The game-over timeout: confirm(...) answered by the player.
gameOverPrompt(s, answer) ==
  LET d == [s EXCEPT !.prompts = s.prompts - 1]
  IN IF answer THEN restartGame(d) ELSE d

\* ------------------------------------------------------------ the machine

Engine ==
  [grid |-> grid, obj |-> fallingPieceObj, score |-> score, running |-> isGameRunning,
   timers |-> timers, handleLive |-> handleLive, prompts |-> prompts, threw |-> FALSE,
   count |-> count, shapes |-> shapes]

\* The handler of event ev ran and left engine state r.
Deliver(r, ev) ==
  /\ events < MaxEvents
  /\ \E s \in {r} :
       /\ grid' = s.grid
       /\ fallingPieceObj' = s.obj
       /\ score' = s.score
       /\ isGameRunning' = s.running
       /\ timers' = s.timers
       /\ handleLive' = s.handleLive
       /\ prompts' = s.prompts
       /\ threw' = s.threw
       /\ count' = s.count
       /\ shapes' = s.shapes
  /\ lastEvent' = ev
  /\ events' = events + 1
  /\ UNCHANGED probe

\* Boards a game reaches, each described by the pieces locked so far: a brick is the
\* rectangle of cells (rows r1..r2, columns c1..c2, 0-based) that vertical or
\* horizontal I pieces (fill-code 1) or O pieces (fill-code 7) dropped there cover.
Brick(r1, r2, c1, c2, code) == [r1 |-> r1, r2 |-> r2, c1 |-> c1, c2 |-> c2, code |-> code]

BoardOf(bricks) ==
  [q \in 1..ROWS |-> [p \in 1..COLS |->
     LET over == {b \in bricks : /\ b.r1 <= q - 1 /\ q - 1 <= b.r2
                                 /\ b.c1 <= p - 1 /\ p - 1 <= b.c2}
     IN IF over = {} THEN 0 ELSE (CHOOSE b \in over : TRUE).code]]

\* Two horizontal I pieces on the floor, then an O piece: row 19 is complete.
OneRow == BoardOf({Brick(19, 19, 0, 7, 1), Brick(18, 19, 8, 9, 7)})
\* Five O pieces side by side: rows 18 and 19 are complete.
TwoRows == BoardOf({Brick(18, 19, 0, 9, 7)})
\* Six horizontal I pieces, then vertical I pieces in columns 8 and 9: rows 17..19
\* are complete.
ThreeRows == BoardOf({Brick(17, 19, 0, 7, 1), Brick(16, 19, 8, 9, 1)})
\* Ten vertical I pieces: rows 16..19 are complete.
FourRows == BoardOf({Brick(16, 19, 0, 9, 1)})
\* O pieces left to fall from the spawn point: a tower in columns 4 and 5.
Tower16 == BoardOf({Brick(4, 19, 4, 5, 7)})
Tower18 == BoardOf({Brick(2, 19, 4, 5, 7)})
\* The tower of 16, and O pieces moved two columns left onto a tower of 18.
SideTower == BoardOf({Brick(4, 19, 4, 5, 7), Brick(2, 19, 2, 3, 7)})

\* The tower of 16, then O pieces moved aside in row 1 and dropped to the floor:
\* rows 18 and 19 are complete under a stack that ends three rows below the top.
TowerRows == BoardOf({Brick(4, 19, 4, 5, 7), Brick(18, 19, 0, 9, 7)})

\* I pieces only.  Rows 8..19: two horizontal ones side by side in columns 1..8 and
\* vertical ones in column 9, column 0 left empty.  Rows 4..7: horizontal ones in
\* columns 0..3 and 6..9 and a vertical one in column 4.  Column 5 is a well four
\* rows deep under the spawn point; no row is complete.
Well == BoardOf({Brick(8, 19, 1, 9, 1), Brick(4, 7, 0, 4, 1), Brick(4, 7, 6, 9, 1)})

StartBoards ==
  {generateGrid, OneRow, TwoRows, ThreeRows, FourRows, Tower16, Tower18, SideTower,
   TowerRows, Well}

\* The score of a game that reaches the board: 0, or 100 when four rows were
\* cleared at once (ten vertical I pieces) before the board was built.
StartScore(b) == IF b \in {TwoRows, FourRows} THEN 100 ELSE 0

\* The state the script leaves once loaded (grid = generateGrid, then startGame()),
\* or a later state of a game in which the last piece has just locked.
Init ==
  /\ grid \in StartBoards
  /\ fallingPieceObj = Null
  /\ score = StartScore(grid)
  /\ isGameRunning = TRUE
  /\ timers = 1
  /\ handleLive = TRUE
  /\ prompts = 0
  /\ lastEvent = "start"
  /\ threw = FALSE
  /\ count = 0
  /\ events = 0
  /\ probe = <<>>
  /\ shapes = SHAPES

\* Math.floor(Math.random() * 7), drawn only when a piece is spawned.
Randoms == IF fallingPieceObj = Null THEN 0..6 ELSE {0}

\* The interval fires newGameState.  A pending game-over prompt is due 100 ms after
\* the game-over, before any interval of 500 ms set since can fire.
Tick ==
  /\ timers > 0
  /\ prompts = 0
  /\ \E ran \in Randoms :
       Deliver(newGameState(Engine, ran), "newGameState")

KeyOp(key) ==
  IF key = "ArrowDown" THEN "moveDown"
  ELSE IF key = "ArrowLeft" THEN "moveLeft"
  ELSE IF key = "ArrowRight" THEN "moveRight"
  ELSE IF key = "ArrowUp" THEN "rotate"
  ELSE "none"

KeyDown ==
  \E key \in {"ArrowDown", "ArrowLeft", "ArrowRight", "ArrowUp", "Enter"} :
    Deliver(keydown(Engine, key), KeyOp(key))

MobileLeft ==
  Deliver(mobileLeft(Engine), "moveLeft")

MobileRight ==
  Deliver(mobileRight(Engine), "moveRight")

SwipeOp(mobile, gesture) ==
  IF ~mobile THEN "none"
  ELSE IF gesture = "right" THEN "moveRight"
  ELSE IF gesture = "left" THEN "moveLeft"
  ELSE IF gesture = "down" THEN "moveDown"
  ELSE IF gesture = "up" THEN "rotate"
  ELSE "none"

TouchEnd ==
  \E mobile \in BOOLEAN, gesture \in {"right", "left", "down", "up", "short"} :
    Deliver(touchend(Engine, mobile, gesture), SwipeOp(mobile, gesture))

RestartClick ==
  Deliver(restartGame(Engine), "restartGame")

GameOverPrompt ==
  /\ prompts > 0
  /\ \E answer \in BOOLEAN :
       Deliver(gameOverPrompt(Engine, answer), IF answer THEN "confirm" ELSE "decline")

ResizeTimeout ==
  \E changed \in BOOLEAN :
    Deliver(switchCanvas(Engine, changed), IF changed THEN "switchCanvas" ELSE "resize")

Next ==
  \/ Tick
  \/ KeyDown
  \/ MobileLeft
  \/ MobileRight
  \/ TouchEnd
  \/ RestartClick
  \/ GameOverPrompt
  \/ ResizeTimeout

Spec == Init /\ [][Next]_vars

\* ------------------------------------------------ a lone checkGrid pass
\* checkGrid applied once to boards whose rows, in a band of MaxBand rows at the top
\* or at the bottom, are each empty, complete, complete but for one cell, or empty
\* but for one cell; the rows of a band differ from one another.

RowKinds == {"empty", "full", "gap", "dot"}

RowOfKind(kind, i) ==
  [j \in 1..COLS |->
     IF kind = "empty" THEN 0
     ELSE IF kind = "full" THEN (i % 7) + 1
     ELSE IF kind = "gap" THEN (IF j - 1 = i % COLS THEN 0 ELSE (i % 7) + 1)
     ELSE (IF j - 1 = i % COLS THEN (i % 7) + 1 ELSE 0)]

BandBoard(f, top) ==
  [q \in 1..ROWS |->
     IF q - 1 >= top /\ q - 1 < top + MaxBand
       THEN RowOfKind(f[q - 1 - top], q - 1)
       ELSE EmptyRow]

BandBoards ==
  {BandBoard(f, top) : f \in [0..(MaxBand - 1) -> RowKinds], top \in {0, ROWS - MaxBand}}

InitCheckGrid ==
  /\ grid \in BandBoards
  /\ fallingPieceObj = Null
  /\ score \in {0, 90}
  /\ isGameRunning = TRUE
  /\ timers = 1
  /\ handleLive = TRUE
  /\ prompts = 0
  /\ lastEvent = "start"
  /\ threw = FALSE
  /\ count = 0
  /\ events = 0
  /\ probe = <<>>
  /\ shapes = SHAPES

CheckGridPass ==
  /\ lastEvent = "start"
  /\ \E r \in {checkGrid(grid, score)} :
       /\ grid' = r.grid
       /\ score' = r.score
       /\ count' = r.count
  /\ probe' = <<[grid |-> grid, score |-> score]>>
  /\ lastEvent' = "checkGrid"
  /\ events' = events + 1
  /\ UNCHANGED <<fallingPieceObj, isGameRunning, timers, handleLive, prompts, threw,
                 shapes>>

NextCheckGrid == CheckGridPass

SpecCheckGrid == InitCheckGrid /\ [][NextCheckGrid]_vars

\* ------------------------------------------------ a lone collision call
\* collision called once, with or without a rotated matrix, for every shape in
\* every rotation and every candidate position on and around the board.

ProbeBoards == {generateGrid, ThreeRows, SideTower}

RECURSIVE Turned(_, _)
Turned(piece, n) == IF n = 0 THEN piece ELSE Turned(RotatedPiece(piece), n - 1)

InitCollision ==
  /\ grid \in ProbeBoards
  /\ \E ran \in 0..6, n \in 0..3 :
       fallingPieceObj =
         <<[piece |-> Turned(At(SHAPES, ran), n), colorIndex |-> ran + 1,
            x |-> 4, y |-> 0]>>
  /\ score = 0
  /\ isGameRunning = TRUE
  /\ timers = 1
  /\ handleLive = TRUE
  /\ prompts = 0
  /\ lastEvent = "start"
  /\ threw = FALSE
  /\ count = 0
  /\ events = 0
  /\ probe = <<>>
  /\ shapes = SHAPES

CollisionCall ==
  /\ lastEvent = "start"
  /\ \E x \in (0 - MaxMargin)..(COLS - 1 + MaxMargin),
        y \in (0 - MaxMargin)..(ROWS - 1 + MaxMargin),
        rotatedPiece \in {Undefined, RotatedPiece(Obj.piece)} :
       probe' = <<[x |-> x, y |-> y, rotatedPiece |-> rotatedPiece,
                   result |-> collision(Engine, x, y, rotatedPiece)]>>
  /\ lastEvent' = "collision"
  /\ events' = events + 1
  /\ UNCHANGED <<game, threw, count>>

NextCollision == CollisionCall

SpecCollision == InitCollision /\ [][NextCollision]_vars

\* ------------------------------------------------- rotate calls in a row
\* rotate called up to MaxTurns times in a row on a piece of any template, placed
\* anywhere on the empty board where it does not collide.  probe keeps the matrix
\* the piece started with, the matrix after each call and whether a call found its
\* rotated matrix colliding.

InitRotate ==
  /\ grid = generateGrid
  /\ shapes = SHAPES
  /\ \E ran \in 0..6, x \in (0 - MaxMargin)..(COLS - 1), y \in 0..(ROWS - 1) :
       /\ fallingPieceObj = <<[randomPieceObject([shapes |-> SHAPES], ran)
                                 EXCEPT !.x = x, !.y = y]>>
       /\ ~CollisionScan(generateGrid, At(SHAPES, ran), x, y, 0)
  /\ score = 0
  /\ isGameRunning = TRUE
  /\ timers = 1
  /\ handleLive = TRUE
  /\ prompts = 0
  /\ lastEvent = "start"
  /\ threw = FALSE
  /\ count = 0
  /\ events = 0
  /\ probe = <<[piece |-> Obj.piece, seen |-> <<>>, rejected |-> FALSE]>>

RotateCall ==
  /\ events < MaxTurns
  /\ \E s \in {rotate(Engine)} :
       /\ fallingPieceObj' = s.obj
       /\ grid' = s.grid
       /\ shapes' = s.shapes
       /\ probe' = <<[probe[1] EXCEPT
                        !.seen = Append(@, s.obj[1].piece),
                        !.rejected = @ \/ collision(Engine, Obj.x, Obj.y,
                                                    RotatedPiece(Obj.piece))]>>
  /\ lastEvent' = "rotate"
  /\ events' = events + 1
  /\ UNCHANGED <<score, isGameRunning, timers, handleLive, prompts, threw, count>>

NextRotate == RotateCall

SpecRotate == InitRotate /\ [][NextRotate]_vars

\* --------------------------------------------- moveDown calls in a row
\* A piece of any template, spawned at vertical offset 0 in any column where it
\* does not collide, on the empty board; moveDown is called up to MaxSteps times
\* in a row.  probe keeps the fill-code and the column of the piece.

InitDrop ==
  /\ grid = generateGrid
  /\ shapes = SHAPES
  /\ \E ran \in 0..6, x \in (0 - MaxMargin)..(COLS - 1) :
       /\ fallingPieceObj = <<[randomPieceObject([shapes |-> SHAPES], ran)
                                 EXCEPT !.x = x]>>
       /\ ~CollisionScan(generateGrid, At(SHAPES, ran), x, 0, 0)
  /\ score = 0
  /\ isGameRunning = TRUE
  /\ timers = 1
  /\ handleLive = TRUE
  /\ prompts = 0
  /\ lastEvent = "start"
  /\ threw = FALSE
  /\ count = 0
  /\ events = 0
  /\ probe = <<[colorIndex |-> Obj.colorIndex, x |-> Obj.x]>>

MoveDownCall ==
  /\ events < MaxSteps
  /\ \E s \in {moveDown(Engine)} :
       /\ grid' = s.grid
       /\ fallingPieceObj' = s.obj
       /\ score' = s.score
       /\ isGameRunning' = s.running
       /\ timers' = s.timers
       /\ handleLive' = s.handleLive
       /\ prompts' = s.prompts
       /\ threw' = (threw \/ s.threw)
       /\ count' = s.count
       /\ shapes' = s.shapes
  /\ lastEvent' = "moveDown"
  /\ events' = events + 1
  /\ UNCHANGED probe

NextDrop == MoveDownCall

SpecDrop == InitDrop /\ [][NextDrop]_vars

\* ------------------------------------------------- the life of one piece
\* A running game on the empty board, under the tower or over the well, followed
\* from the tick that spawns a piece to the tick or move-down input that locks it,
\* with key presses in any number and order while the piece is active and no
\* restart.  The interval timer fires every 500 ms as long as it is live, so the tick
\* is weakly fair.  probe keeps whether the piece was spawned and the number of
\* ticks since that tick; lastEvent tells a tick from a key press.

LifeBoards == {generateGrid, Tower16, Well}

InitLife ==
  /\ grid \in LifeBoards
  /\ fallingPieceObj = Null
  /\ score = StartScore(grid)
  /\ isGameRunning = TRUE
  /\ timers = 1
  /\ handleLive = TRUE
  /\ prompts = 0
  /\ lastEvent = "start"
  /\ threw = FALSE
  /\ count = 0
  /\ events = 0
  /\ probe = <<[spawned |-> FALSE, ticks |-> 0]>>
  /\ shapes = SHAPES

LifeDeliver(r, ev, n) ==
  /\ \E s \in {r} :
       /\ grid' = s.grid
       /\ fallingPieceObj' = s.obj
       /\ score' = s.score
       /\ isGameRunning' = s.running
       /\ timers' = s.timers
       /\ handleLive' = s.handleLive
       /\ prompts' = s.prompts
       /\ threw' = s.threw
       /\ count' = s.count
       /\ shapes' = s.shapes
  /\ lastEvent' = ev
  /\ probe' = <<[spawned |-> TRUE, ticks |-> n]>>
  /\ UNCHANGED events

\* The interval timer is live, no prompt blocks the page and the piece followed is
\* still to spawn or still active: the condition under which the tick can fire.
TickDue ==
  /\ timers > 0
  /\ prompts = 0
  /\ fallingPieceObj # Null \/ ~probe[1].spawned

LifeTick ==
  /\ TickDue
  /\ \E ran \in Randoms :
       LifeDeliver(newGameState(Engine, ran), "newGameState",
                   IF fallingPieceObj = Null THEN 0 ELSE probe[1].ticks + 1)

LifeKeyDown ==
  /\ fallingPieceObj # Null
  /\ \E key \in {"ArrowDown", "ArrowLeft", "ArrowRight", "ArrowUp"} :
       LifeDeliver(keydown(Engine, key), "keydown", probe[1].ticks)

NextLife ==
  \/ LifeTick
  \/ LifeKeyDown

\* The tick as lastEvent and probe show it: the interval is due, the step is
\* newGameState's and the tick count of the piece followed moves on.  It is enabled
\* exactly when TickDue holds, and the steps of NextLife that satisfy it are the
\* steps of LifeTick, so weak fairness of it is weak fairness of the tick.
TickStep ==
  /\ TickDue
  /\ lastEvent' = "newGameState"
  /\ probe' = <<[spawned |-> TRUE,
                 ticks |-> IF fallingPieceObj = Null THEN 0 ELSE probe[1].ticks + 1]>>

SpecLife == InitLife /\ [][NextLife]_vars /\ WF_<<lastEvent, probe>>(TickStep)

\* ---------------------------------------------------------------- claims

\* A row is complete when none of its cells is 0.
CompleteRow(row) == ~(\E j \in 1..Len(row) : row[j] = 0)

CompleteRows(g) == {i \in 1..Len(g) : CompleteRow(g[i])}

\* C1: one checkGrid pass counts and removes every row whose cells are all nonzero,
\* adjacent complete rows included, and reports no row that holds a zero cell: the
\* pass count is the number of complete rows before the pass, no complete row is
\* left after it, and every row that held a zero cell is still a row of the board.
C1_PassFindsEveryCompleteRow ==
  lastEvent = "checkGrid" =>
    LET before == probe[1].grid
    IN /\ count = Cardinality(CompleteRows(before))
       /\ CompleteRows(grid) = {}
       /\ Len(grid) = ROWS
       /\ \A i \in 1..ROWS :
            ~CompleteRow(before[i]) => \E k \in 1..ROWS : grid[k] = before[i]

\* A pass over a board with two adjacent complete rows (and a third) has run.
C1_Witness ==
  /\ lastEvent = "checkGrid"
  /\ \E i \in 1..(ROWS - 1) : {i, i + 1} \subseteq CompleteRows(probe[1].grid)
  /\ count >= 3
  /\ CompleteRows(grid) = {}

\* The increment the scoring table gives for a pass that cleared n rows.
ScoreTable(n) ==
  CASE n = 0 -> 0
    [] n = 1 -> 10
    [] n = 2 -> 30
    [] n = 3 -> 50
    [] n >= 4 -> 100

RestartEvents == {"restartGame", "confirm", "switchCanvas"}
InputEvents == {"moveLeft", "moveRight", "moveDown", "rotate"}

\* C2: the line-clear pass of a tick that cleared 1, 2, 3 or at least 4 rows adds
\* 10, 30, 50 or 100 to the score and a pass that cleared none adds 0 (the pass
\* cleared as many rows as were complete); the scoring adds the table's increment
\* for every count up to ROWS; no event other than a tick or a restart changes the
\* score.
C2_ScoringTable ==
  [][/\ lastEvent' = "newGameState" =>
          /\ count' = Cardinality(CompleteRows(grid))
          /\ score' = score + ScoreTable(count')
     /\ \A n \in 0..ROWS : AddScore(score, n) = score + ScoreTable(n)
     /\ lastEvent' \notin (RestartEvents \cup {"newGameState"}) => score' = score
    ]_vars

\* A tick has cleared three rows at once and added 50.
C2_Witness ==
  /\ lastEvent = "newGameState"
  /\ count = 3
  /\ score = 50

\* The vertical offset of the piece a stepDown acts on: that of the active piece,
\* or 0 for the piece the tick spawns.
StepY == IF fallingPieceObj = Null THEN 0 ELSE Obj.y

\* This step ran stepDown on a piece and locked it.
StepDownLocks ==
  /\ \/ lastEvent' = "newGameState"
     \/ lastEvent' = "moveDown" /\ isGameRunning /\ fallingPieceObj # Null
  /\ fallingPieceObj' = Null
  /\ ~threw'

\* C3: a stepDown that locks a piece at vertical offset 0 ends the game in that
\* step: no tick timer is live and the running flag is false after it; a stepDown
\* that locks a piece at offset >= 1 leaves the running flag and the timer as they
\* were.
C3_LockAtSpawnEndsGame ==
  [][StepDownLocks =>
       IF StepY = 0
         THEN /\ ~isGameRunning'
              /\ timers' = 0
              /\ ~handleLive'
         ELSE /\ isGameRunning' = isGameRunning
              /\ timers' = timers
              /\ handleLive' = handleLive
    ]_vars

\* A tick has spawned a piece onto the stack, locked it in row 0 and stopped the game.
C3_Witness ==
  /\ lastEvent = "newGameState"
  /\ fallingPieceObj = Null
  /\ \E p \in 1..COLS : grid[1][p] # 0
  /\ ~isGameRunning
  /\ timers = 0
  /\ prompts = 1

\* C4: while the running flag is false, a move-left, move-right, move-down or
\* rotate event (key, mobile button or swipe) changes neither board, piece, score,
\* running flag nor timer, and its handler ends without a fault.
C4_InputIgnoredWhenStopped ==
  [][(~isGameRunning /\ lastEvent' \in InputEvents) =>
       /\ UNCHANGED <<grid, fallingPieceObj, score, isGameRunning, timers, handleLive>>
       /\ ~threw'
    ]_vars

\* A move-down event was delivered to a stopped game.
C4_Witness ==
  /\ ~isGameRunning
  /\ lastEvent = "moveDown"
  /\ timers = 0

\* C5: restartGame, from the button or from the accepted game-over prompt, in any
\* state (mid-game, after game-over, with the prompt pending) ends with an empty
\* board, no active piece, score 0, the running flag true and exactly one tick
\* timer.
C5_RestartIsFresh ==
  lastEvent \in {"restartGame", "confirm", "switchCanvas"} =>
    /\ grid = generateGrid
    /\ fallingPieceObj = Null
    /\ score = 0
    /\ isGameRunning
    /\ timers = 1
    /\ handleLive

\* The restart button was used after a game-over, with the prompt still pending.
C5_Witness ==
  /\ lastEvent = "restartGame"
  /\ prompts = 1
  /\ grid = generateGrid
  /\ timers = 1

\* The filled cells of a shape matrix, as 0-based (row, column) pairs.
FilledCells(piece) ==
  {c \in (0..(Len(piece) - 1)) \X (0..(Len(piece) - 1)) : piece[c[1] + 1][c[2] + 1] = 1}

\* Some filled cell of the shape, placed with its origin at column x and row y,
\* lies outside the board or on a nonzero cell of board g.
Blocked(g, piece, x, y) ==
  \E c \in FilledCells(piece) :
    LET p == x + c[2]
        q == y + c[1]
    IN \/ p \notin 0..(COLS - 1)
       \/ q \notin 0..(ROWS - 1)
       \/ g[q + 1][p + 1] # 0

\* The leftmost board column a filled cell of the active piece occupies.
LeftmostColumn ==
  LET cols == {Obj.x + c[2] : c \in FilledCells(Obj.piece)}
  IN CHOOSE m \in cols : \A k \in cols : m <= k

\* C6: on a running game moveLeft / moveRight change the horizontal offset by
\* exactly -1 / +1 when the piece would not collide at the target column, and leave
\* it as it is otherwise (so moveLeft with the leftmost filled cell in column 0
\* moves nothing); vertical offset, shape, fill-code, board and score stay as
\* they were, and without an active piece nothing changes.
C6_SidewaysMove ==
  [][\A d \in {-1, 1} :
       (isGameRunning /\ lastEvent' = (IF d = -1 THEN "moveLeft" ELSE "moveRight")) =>
         /\ UNCHANGED <<grid, score>>
         /\ IF fallingPieceObj = Null
              THEN fallingPieceObj' = Null
              ELSE /\ fallingPieceObj' # Null
                   /\ Obj'.y = Obj.y
                   /\ Obj'.piece = Obj.piece
                   /\ Obj'.colorIndex = Obj.colorIndex
                   /\ Obj'.x = (IF Blocked(grid, Obj.piece, Obj.x + d, Obj.y)
                                  THEN Obj.x ELSE Obj.x + d)
                   /\ (d = -1 /\ LeftmostColumn = 0) => Obj'.x = Obj.x
    ]_vars

\* moveLeft has acted on a piece whose leftmost filled cell is in column 0.
C6_Witness ==
  /\ isGameRunning
  /\ lastEvent = "moveLeft"
  /\ fallingPieceObj # Null
  /\ LeftmostColumn = 0

\* The shape turned a quarter clockwise: cell (i, j) comes from cell (n-1-j, i).
QuarterTurn(piece) ==
  LET n == Len(piece)
  IN [i \in 1..n |-> [j \in 1..n |-> piece[n + 1 - j][i]]]

\* C7: rotate changes neither offset, nor the fill-code, the board or the score;
\* the shape becomes the quarter turn when that does not collide where the piece
\* is and stays exactly as it was when it does (no other offset is tried); with no
\* active piece nothing changes.
C7_RotateInPlace ==
  [][(isGameRunning /\ lastEvent' = "rotate") =>
       /\ UNCHANGED <<grid, score>>
       /\ IF fallingPieceObj = Null
            THEN fallingPieceObj' = Null
            ELSE /\ fallingPieceObj' # Null
                 /\ Obj'.x = Obj.x
                 /\ Obj'.y = Obj.y
                 /\ Obj'.colorIndex = Obj.colorIndex
                 /\ Obj'.piece = (IF Blocked(grid, QuarterTurn(Obj.piece), Obj.x, Obj.y)
                                    THEN Obj.piece ELSE QuarterTurn(Obj.piece))
    ]_vars

\* rotate has acted on a piece whose quarter turn collides where it is.  The shape
\* it would have had before an accepted rotation (three quarter turns on) collides
\* there too, so the rotation was rejected and the shape kept.
C7_Witness ==
  /\ isGameRunning
  /\ lastEvent = "rotate"
  /\ fallingPieceObj # Null
  /\ Blocked(grid, QuarterTurn(Obj.piece), Obj.x, Obj.y)
  /\ Blocked(grid, QuarterTurn(QuarterTurn(QuarterTurn(Obj.piece))), Obj.x, Obj.y)
  /\ ~Blocked(grid, Obj.piece, Obj.x, Obj.y)

\* The board after a line-clear pass: as many empty rows as rows were complete,
\* then the other rows in their order.
RECURSIVE KeptRows(_, _)
KeptRows(g, i) ==
  IF i > Len(g) THEN <<>>
  ELSE IF CompleteRow(g[i]) THEN KeptRows(g, i + 1)
  ELSE <<g[i]>> \o KeptRows(g, i + 1)

ClearedBoard(g) ==
  [k \in 1..Cardinality(CompleteRows(g)) |-> EmptyRow] \o KeptRows(g, 1)

\* Matrix cell (i, j), 0-based, is a filled cell of the shape.
Filled(piece, i, j) ==
  /\ i >= 0 /\ i < Len(piece)
  /\ j >= 0 /\ j < Len(piece)
  /\ piece[i + 1][j + 1] = 1

\* The board with the filled cells of piece o written as its fill-code.
Merged(g, o) ==
  [q \in 1..ROWS |-> [p \in 1..COLS |->
     IF Filled(o.piece, q - 1 - o.y, p - 1 - o.x) THEN o.colorIndex ELSE g[q][p]]]

\* The pieces the stepDown of this step may act on: the active piece, or in a tick
\* without one, a piece just spawned.
SteppedPieces ==
  IF fallingPieceObj # Null THEN {Obj}
  ELSE {[piece |-> SHAPES[k], colorIndex |-> k, x |-> 4, y |-> 0] : k \in 1..7}

\* This step ran stepDown on a piece.
StepDownRuns ==
  \/ lastEvent' = "newGameState"
  \/ lastEvent' = "moveDown" /\ isGameRunning /\ fallingPieceObj # Null

\* C9: a stepDown whose piece cannot go one row down locks it: the board cells under
\* the filled cells of its shape hold its fill-code, every other cell is as it was
\* (in a tick: as the line-clear pass left it), and no piece is active; a stepDown
\* whose piece can go down adds 1 to the vertical offset and changes nothing else of
\* the piece or the board.
C9_LockMergesPiece ==
  [][StepDownRuns =>
       \E b \in {IF lastEvent' = "newGameState" THEN ClearedBoard(grid) ELSE grid} :
         \E o \in SteppedPieces :
           IF Blocked(b, o.piece, o.x, o.y + 1)
             THEN /\ fallingPieceObj' = Null
                  /\ grid' = Merged(b, o)
             ELSE /\ fallingPieceObj' = <<[o EXCEPT !.y = o.y + 1]>>
                  /\ grid' = b
    ]_vars

\* A piece of a shape other than I and O (the only ones on the starting boards) has
\* been locked below row 0 and the game goes on without an active piece.
C9_Witness ==
  /\ lastEvent \in {"newGameState", "moveDown"}
  /\ fallingPieceObj = Null
  /\ isGameRunning
  /\ \E q \in 1..ROWS, p \in 1..COLS : grid[q][p] \in 2..6

\* C10: the score is a non-negative integer; no tick or input event lowers it, and
\* the restarts are the only events that set it back to 0.
C10_ScoreMonotone ==
  [][/\ score \in Nat
     /\ score' \in Nat
     /\ lastEvent' \notin RestartEvents => score' >= score
     /\ (score' = 0 /\ score # 0) => lastEvent' \in RestartEvents
    ]_vars

\* The score rose in a tick and an input event after it left it there.
C10_Witness ==
  /\ score = 130
  /\ lastEvent \in InputEvents

\* The matrix a collision call tests: the rotated matrix when one is passed, the
\* matrix of the falling piece otherwise.
ProbedPiece == IF probe[1].rotatedPiece # Undefined THEN probe[1].rotatedPiece ELSE Obj.piece

\* C8: collision returns true exactly when some filled cell of the tested shape, at
\* the candidate position, lies outside columns 0..9 x rows 0..19 or on a nonzero
\* board cell; the cells of the matrix that are 0 never cause a collision.
C8_CollisionIffBlocked ==
  lastEvent = "collision" =>
    probe[1].result = Blocked(grid, ProbedPiece, probe[1].x, probe[1].y)

\* collision answered false although an empty cell of the matrix lies outside the
\* board.
C8_Witness ==
  /\ lastEvent = "collision"
  /\ probe[1].result = FALSE
  /\ \E i \in 0..(Len(ProbedPiece) - 1), j \in 0..(Len(ProbedPiece) - 1) :
       /\ ProbedPiece[i + 1][j + 1] = 0
       /\ \/ probe[1].x + j \notin 0..(COLS - 1)
          \/ probe[1].y + i \notin 0..(ROWS - 1)

\* C11: in every state the board has exactly ROWS rows of exactly COLS cells and
\* every cell is an integer in 0..7, whatever ticks, locks, line clears, inputs and
\* restarts came before.
C11_BoardShape ==
  /\ Len(grid) = ROWS
  /\ \A q \in 1..Len(grid) :
       /\ Len(grid[q]) = COLS
       /\ \A p \in 1..Len(grid[q]) : grid[q][p] \in 0..7

\* A tick has cleared at least two rows, a piece has since locked onto the board and
\* a further event was delivered.
C11_Witness ==
  /\ score >= 30
  /\ events >= 3
  /\ fallingPieceObj = Null
  /\ \E q \in 1..ROWS, p \in 1..COLS : grid[q][p] \in 2..6

\* The piece a tick spawns from template k (1-based), where randomPieceObject
\* puts it.
SpawnOf(k) == [piece |-> SHAPES[k], colorIndex |-> k, x |-> 4, y |-> 0]

\* C12: a tick runs the line clear with its score update first, then spawns a piece
\* if none is active, then takes one gravity step.  So the score rises by the table's
\* increment for the rows that were complete before the tick; a piece spawned in the
\* tick is tested against the board as the line clear left it, and after the tick it
\* is one row down or locked, never still at vertical offset 0; an active piece is
\* one row down, on the board as the line clear left it, or locked.
C12_TickOrder ==
  [][lastEvent' = "newGameState" =>
       \E b \in {ClearedBoard(grid)} :
         /\ count' = Cardinality(CompleteRows(grid))
         /\ score' = score + ScoreTable(count')
         /\ IF fallingPieceObj = Null
              THEN \E k \in 1..7 :
                     IF Blocked(b, SHAPES[k], 4, 1)
                       THEN /\ fallingPieceObj' = Null
                            /\ grid' # b
                            /\ \A q \in 5..ROWS : grid'[q] = b[q]
                       ELSE /\ fallingPieceObj' = <<[SpawnOf(k) EXCEPT !.y = 1]>>
                            /\ grid' = b
              ELSE \/ /\ fallingPieceObj' = <<[Obj EXCEPT !.y = Obj.y + 1]>>
                      /\ grid' = b
                   \/ /\ fallingPieceObj' = Null
                      /\ Blocked(b, Obj.piece, Obj.x, Obj.y + 1)
    ]_vars

\* The first tick has cleared rows and spawned a piece that is now one row down;
\* had the rows not been cleared before the spawn, the stack would stand that many
\* rows higher and the piece would have locked where it was spawned.
C12_Witness ==
  /\ lastEvent = "newGameState"
  /\ events = 1
  /\ count >= 1
  /\ fallingPieceObj # Null
  /\ Obj.y = 1
  /\ Blocked(grid, Obj.piece, Obj.x, Obj.y + count)

\* C13: for each of the seven templates, rotate applied four times in a row with no
\* rotation rejected by a collision leaves the piece with exactly the matrix it
\* started with; offsets and fill-code are as they were.
C13_FourTurnsIdentity ==
  (events = 4 /\ ~probe[1].rejected) =>
    /\ Obj.piece = probe[1].piece
    /\ Obj.piece = SHAPES[Obj.colorIndex]

\* Four rotations were accepted on a piece whose matrix differed from the one it
\* started with after the first, the second and the third.
C13_Witness ==
  /\ events = 4
  /\ ~probe[1].rejected
  /\ \A n \in 1..3 : probe[1].seen[n] # probe[1].piece
  /\ probe[1].seen[4] = probe[1].piece

\* The dropped piece is the O piece, spawned at column 4.
DropsO == probe[1].colorIndex = 7 /\ probe[1].x = 4

\* C14, as stated: the O piece spawned at column 4, row 0 of the empty board is
\* still active after each of the first 19 moveDown calls, at vertical offset 19
\* after the 19th, and the 20th call locks it.
C14_NineteenSteps ==
  DropsO =>
    /\ events <= 19 => (fallingPieceObj # Null /\ Obj.y = events)
    /\ events = 20 => (fallingPieceObj = Null /\ ~threw)

\* C14, amended: the O piece spawned at column 4, row 0 of the empty board is
\* still active after each of the first 18 moveDown calls, at vertical offset 18
\* (its lower cells in row 19) after the 18th, with the board still empty; the
\* 19th call locks it: no piece is active, the board holds fill-code 7 in rows 18
\* and 19 of columns 4 and 5 and nothing else, and the game is still running.
C14_EighteenSteps ==
  DropsO =>
    /\ events <= 18 =>
         /\ fallingPieceObj = <<[SpawnOf(7) EXCEPT !.y = events]>>
         /\ grid = generateGrid
    /\ events = 19 =>
         /\ fallingPieceObj = Null
         /\ grid = Merged(generateGrid, [SpawnOf(7) EXCEPT !.y = 18])
         /\ isGameRunning
         /\ ~threw

\* The 19th moveDown on the O piece dropped at column 4 has locked it on the floor.
C14_Witness ==
  /\ DropsO
  /\ events = 19
  /\ lastEvent = "moveDown"
  /\ fallingPieceObj = Null
  /\ grid[ROWS][5] = 7
  /\ grid[ROWS - 1][6] = 7

\* C15: when the delayed game-over prompt is answered, an accepted prompt leaves a
\* fresh running game (empty board, no piece, score 0, one tick timer) and a
\* declined prompt leaves the game stopped (running flag false, no tick timer),
\* whatever events, the restart button included, came between the game-over and
\* the answer.
C15_PromptAnswer ==
  /\ lastEvent = "confirm" =>
       /\ grid = generateGrid
       /\ fallingPieceObj = Null
       /\ score = 0
       /\ isGameRunning
       /\ timers = 1
  /\ lastEvent = "decline" =>
       /\ ~isGameRunning
       /\ timers = 0

\* C16: in every tick randomPieceObject puts a piece at horizontal offset 4 and
\* vertical offset 0 with fill-code template index + 1, in 1..7; only a tick makes a
\* piece active, and the piece it leaves active is the template of its fill-code at
\* column 4, one gravity step below row 0; as long as a piece stays active its
\* fill-code is the same, whatever moves and rotations are applied.
C16_SpawnPoint ==
  [][/\ lastEvent' = "newGameState" =>
          \A ran \in 0..6 :
            \E o \in {randomPieceObject(Engine, ran)} :
              /\ o.x = 4
              /\ o.y = 0
              /\ o.colorIndex = ran + 1
              /\ o.colorIndex \in 1..7
     /\ (fallingPieceObj = Null /\ fallingPieceObj' # Null) =>
          /\ lastEvent' = "newGameState"
          /\ Obj'.colorIndex \in 1..7
          /\ Obj'.piece = SHAPES[Obj'.colorIndex]
          /\ Obj'.x = 4
          /\ Obj'.y = 1
     /\ (fallingPieceObj # Null /\ fallingPieceObj' # Null) =>
          Obj'.colorIndex = Obj.colorIndex
    ]_vars

\* A piece of a template other than I and O has been moved off column 4, rotated
\* and stepped down, and is still active.
C16_Witness ==
  /\ fallingPieceObj # Null
  /\ Obj.colorIndex \in 2..6
  /\ Obj.x # 4
  /\ Obj.y >= 2
  /\ Obj.piece # SHAPES[Obj.colorIndex]

\* C17: after a line-clear pass that cleared k rows the board is k all-zero rows
\* followed by exactly the rows that were not complete before the pass, in their
\* top-to-bottom order and with their contents unchanged.
C17_ClearedLayout ==
  lastEvent = "checkGrid" =>
    /\ \A q \in 1..count : grid[q] = EmptyRow
    /\ SubSeq(grid, count + 1, Len(grid)) = KeptRows(probe[1].grid, 1)

\* A pass has cleared two rows that had a row with filled cells between them and
\* another above them, and both rows are still there, in that order.
C17_Witness ==
  /\ lastEvent = "checkGrid"
  /\ count = 2
  /\ \E a, b, c, d \in 1..ROWS :
       /\ a < b /\ b < c /\ c < d
       /\ CompleteRows(probe[1].grid) = {b, d}
       /\ probe[1].grid[a] # EmptyRow
       /\ probe[1].grid[c] # EmptyRow
       /\ grid[a + 2] = probe[1].grid[a]
       /\ grid[c + 1] = probe[1].grid[c]

\* The board cells that hold fill-code k, as (row, column) pairs.
CellsOf(k) == {c \in (1..ROWS) \X (1..COLS) : grid[c[1]][c[2]] = k}

\* The cells are those of a piece in the orientation of matrix m, placed somewhere.
PlacedAs(cells, m) ==
  \E dq \in (0 - 1)..ROWS, dp \in (0 - 3)..COLS :
    cells = {<<dq + c[1] + 1, dp + c[2] + 1>> : c \in FilledCells(m)}

\* C18: no spawn, rotation or lock modifies the seven templates: the SHAPES array
\* holds the original matrices after every event, and the piece a tick leaves
\* active after spawning it has the original matrix of its template, also when an
\* earlier piece of that template was rotated.
C18_TemplatesKept ==
  [][/\ shapes' = SHAPES
     /\ (fallingPieceObj = Null /\ fallingPieceObj' # Null) =>
          Obj'.piece = SHAPES[Obj'.colorIndex]
    ]_vars

\* A tick has spawned a piece of a template of which an earlier piece lies locked
\* on the board in another orientation, so after it was rotated.
C18_Witness ==
  /\ lastEvent = "newGameState"
  /\ fallingPieceObj # Null
  /\ Obj.y = 1
  /\ Obj.piece = SHAPES[Obj.colorIndex]
  /\ CellsOf(Obj.colorIndex) # {}
  /\ ~PlacedAs(CellsOf(Obj.colorIndex), SHAPES[Obj.colorIndex])
  /\ PlacedAs(CellsOf(Obj.colorIndex), RotatedPiece(SHAPES[Obj.colorIndex]))

\* C19: in every state at most one tick timer is live, and one is live exactly when
\* the running flag is true, whatever order startGame, restartGame, game-over,
\* canvas switch and prompt answers came in; startGame called on a running game
\* starts no further timer.
C19_OneTimerIffRunning ==
  /\ timers \in {0, 1}
  /\ (timers = 1) <=> isGameRunning
  /\ handleLive <=> isGameRunning
  /\ isGameRunning => startGame(Engine).timers = timers

\* The canvas was switched after a game-over, with the prompt still pending, and
\* the game runs again on one timer.
C19_Witness ==
  /\ lastEvent = "switchCanvas"
  /\ prompts = 1
  /\ isGameRunning
  /\ timers = 1

\* Every filled cell of the shape, placed with its origin at column x and row y,
\* is a cell of the board.
InsideBoard(piece, x, y) ==
  \A i \in 0..(Len(piece) - 1), j \in 0..(Len(piece) - 1) :
    piece[i + 1][j + 1] = 1 =>
      /\ x + j \in 0..(COLS - 1)
      /\ y + i \in 0..(ROWS - 1)

\* C20: in every state every filled cell of the active piece lies in columns
\* 0..COLS-1 and rows 0..ROWS-1, and so does every filled cell of a template where
\* it is spawned; hence the merge loop of a lock writes board cells only, and no
\* lock ends in a fault.
C20_PieceInsideBoard ==
  /\ fallingPieceObj # Null => InsideBoard(Obj.piece, Obj.x, Obj.y)
  /\ \A k \in 1..7 : InsideBoard(shapes[k], 4, 0)
  /\ lastEvent = "newGameState" => ~threw
  /\ (threw /\ lastEvent = "moveDown") => fallingPieceObj = Null

\* moveRight was asked of a piece that has a filled cell in the last column.
C20_Witness ==
  /\ lastEvent = "moveRight"
  /\ isGameRunning
  /\ fallingPieceObj # Null
  /\ \E i \in 1..Len(Obj.piece), j \in 1..Len(Obj.piece) :
       /\ Obj.piece[i][j] = 1
       /\ Obj.x + j - 1 = COLS - 1

\* The board a lock or a move acts on: in a tick the board as the line clear left
\* it, in any other event the board as it is.
ActedBoard == IF lastEvent' = "newGameState" THEN ClearedBoard(grid) ELSE grid

\* C21: no filled cell of the active piece lies on a nonzero board cell, the piece
\* a tick has just spawned included; so no event other than a restart changes a
\* board cell that was nonzero: a lock writes into empty cells only.
C21_NoOverlap ==
  [][/\ fallingPieceObj' # Null =>
          \A i \in 0..(Len(Obj'.piece) - 1), j \in 0..(Len(Obj'.piece) - 1) :
            Filled(Obj'.piece, i, j) => grid'[Obj'.y + i + 1][Obj'.x + j + 1] = 0
     /\ lastEvent' \notin RestartEvents =>
          \E b \in {ActedBoard} :
            \A q \in 1..ROWS, p \in 1..COLS :
              b[q][p] # 0 => grid'[q][p] = b[q][p]
    ]_vars

\* C22: a move-down input (key or swipe) delivered while the game is running and no
\* piece is active ends without a fault and changes neither board, piece, score,
\* running flag nor timer.
C22_MoveDownWithoutPiece ==
  [][(isGameRunning /\ fallingPieceObj = Null /\ lastEvent' = "moveDown") =>
       /\ ~threw'
       /\ UNCHANGED <<grid, fallingPieceObj, score, isGameRunning, timers, handleLive>>
    ]_vars

\* C23: whenever the running flag is true every cell of board row 0 is 0; row 0
\* holds a nonzero cell only in a game that is over.
C23_TopRowEmptyWhileRunning ==
  isGameRunning => grid[1] = EmptyRow

\* A game is over with a piece locked in row 0, and the prompt was declined.
C23_Witness ==
  /\ lastEvent = "decline"
  /\ ~isGameRunning
  /\ grid[1] # EmptyRow

\* C24: in every state, the first one and the one after every event, at most 4 rows
\* of the board are complete; so the line-clear pass of a tick clears at most 4 rows
\* and the tick raises the score by at most 100.
C24_AtMostFourRows ==
  [][/\ lastEvent = "start" => Cardinality(CompleteRows(grid)) <= 4
     /\ Cardinality(CompleteRows(grid')) <= 4
     /\ lastEvent' = "newGameState" =>
          /\ count' <= 4
          /\ score' <= score + 100
    ]_vars

\* An I piece was dropped into the well, its lock completed four rows at once and
\* the next tick has cleared them and added 100.
C24_Witness ==
  /\ lastEvent = "newGameState"
  /\ events >= 6
  /\ count = 4
  /\ score = 100
  /\ \A q \in 1..8 : grid[q][6] = 0

\* C25: after every tick and every input handler an active piece has vertical
\* offset >= 1; so a game only ends (running flag cleared, prompt scheduled) in a
\* tick that found no piece active and spawned one, never in a move-down input.
C25_ActiveBelowSpawnRow ==
  [][/\ fallingPieceObj' # Null => Obj'.y >= 1
     /\ ((isGameRunning /\ ~isGameRunning') \/ prompts' > prompts) =>
          /\ lastEvent' = "newGameState"
          /\ fallingPieceObj = Null
    ]_vars

\* A move-down input has locked a piece below the spawn row and the game goes on.
C25_Witness ==
  /\ lastEvent = "moveDown"
  /\ ~threw
  /\ fallingPieceObj = Null
  /\ isGameRunning
  /\ prompts = 0
  /\ \E p \in 1..COLS : grid[2][p] \in 2..6

\* C26: in a running game whose ticks keep firing, with no restart, an active piece
\* has seen fewer than 20 ticks since the tick that spawned it, and every active
\* piece is eventually locked and absent, whatever moves and rotations come
\* between the ticks.
C26_PieceLocksWithinTicks ==
  /\ [](fallingPieceObj # Null => probe[1].ticks < 20)
  /\ (fallingPieceObj # Null) ~> (fallingPieceObj = Null)

\* A piece was locked by the 18th tick after the one that spawned it, the latest
\* there is, and the game goes on.
C26_Witness ==
  /\ lastEvent = "newGameState"
  /\ probe[1].spawned
  /\ probe[1].ticks = 18
  /\ fallingPieceObj = Null
  /\ isGameRunning

====
